---- MODULE Spec2Model ----
(***************************************************************************)
(* Model of the kensa-port-forwarder broker (server.ts): the websocket     *)
(* message handler, the approval listeners, createConnection with its      *)
(* warm-up wait, and the close handler.                                    *)
(***************************************************************************)
EXTENDS Integers, Sequences, FiniteSets, TLC

\* ---------------------------------------------------------------- bounds
MaxSockets == 2
MaxClients == 2
MaxReq == 2
MaxChildren == 2
MaxRegisters == 3
MaxSteps == 8

\* ------------------------------------------------------- program constants
MaxPort == 65535

\* ------------------------------------------------------------- input sets
Sockets == 1..MaxSockets
UUIDS == {<<1, 1>>, <<1, 2>>}
Targets == {<<1>>, <<1, 2>>}
Configs == {<<7857>>, <<7858, 7857>>}
NoUuid == <<>>

VARIABLES OPENED_PORTS, agents, sockets, heap, clients, connections, listeners,
          pending, children, files, nreq, nreg, denied, crashed, last, steps

vars == <<OPENED_PORTS, agents, sockets, heap, clients, connections, listeners,
          pending, children, files, nreq, nreg, denied, crashed, last, steps>>

\* ------------------------------------------------------------ sequences
Range(s) == {s[i] : i \in 1..Len(s)}

RemoveAt(s, i) == SubSeq(s, 1, i - 1) \o SubSeq(s, i + 1, Len(s))

\* Array.prototype.findIndex: first index satisfying Test, 0 when none
FindIndex(s, Test(_)) ==
    IF \E i \in 1..Len(s) : Test(s[i])
    THEN CHOOSE i \in 1..Len(s) : Test(s[i]) /\ \A j \in 1..(i - 1) : ~Test(s[j])
    ELSE 0

\* String.prototype.startsWith on uuids represented as character sequences
StartsWith(u, prefix) ==
    Len(prefix) <= Len(u) /\ SubSeq(u, 1, Len(prefix)) = prefix

SetMax(S) == CHOOSE m \in S : \A x \in S : x <= m

\* ------------------------------------------------------ inbound messages
\* raw websocket data: json = FALSE is text that JSON.parse rejects
RawMsg(json, type, uuid, aa, wl, bl, ct, target, port) ==
    [json |-> json, type |-> type, uuid |-> uuid, ssh_key |-> uuid, auto_accept |-> aa,
     port_whitelist |-> wl, port_blacklist |-> bl, client_type |-> ct,
     target |-> target, port |-> port]

Register(u, aa, wl, bl, ct) == RawMsg(TRUE, "register", u, aa, wl, bl, ct, NoUuid, 0)

ConnectToHost(t, p) ==
    RawMsg(TRUE, "connect_to_host", NoUuid, FALSE, <<>>, <<>>, "none", t, p)

ConnectMsgs(ports) == {ConnectToHost(t, p) : t \in Targets, p \in ports}

\* the populations of agents tried: the register and connect_to_host messages they send
AutoAgents ==
    {Register(<<1, 1>>, TRUE, <<>>, <<>>, "sender"),
     Register(<<1, 2>>, TRUE, <<>>, <<>>, "receiver")} \cup ConnectMsgs({80})

ApprovalAgents ==
    {Register(<<1, 1>>, FALSE, <<>>, <<>>, "sender"),
     Register(<<1, 2>>, TRUE, <<>>, <<>>, "receiver")} \cup ConnectMsgs({80})

\* a sender whose whitelist and blacklist both hold port 22
WhitelistAgents ==
    {Register(<<1, 1>>, TRUE, <<22>>, <<22>>, "sender"),
     Register(<<1, 2>>, TRUE, <<>>, <<>>, "receiver")} \cup ConnectMsgs({22, 80})

\* senders that approve by hand, asked for a port their policy denies
WhitelistDeniedAgents ==
    {Register(<<1, 1>>, FALSE, <<22>>, <<>>, "sender"),
     Register(<<1, 2>>, TRUE, <<>>, <<>>, "receiver")} \cup ConnectMsgs({80})

BlacklistDeniedAgents ==
    {Register(<<1, 1>>, FALSE, <<>>, <<22>>, "sender"),
     Register(<<1, 2>>, TRUE, <<>>, <<>>, "receiver")} \cup ConnectMsgs({22})

\* one sender that approves by hand and also asks for tunnels itself
LoneSenderAgents ==
    {Register(<<1, 1>>, FALSE, <<>>, <<>>, "sender")} \cup ConnectMsgs({80})

SendersAgents ==
    {Register(<<1, 1>>, TRUE, <<>>, <<>>, "sender"),
     Register(<<1, 2>>, TRUE, <<>>, <<>>, "sender")} \cup ConnectMsgs({80})

ReregisterAgents ==
    {Register(<<1, 1>>, TRUE, <<>>, <<>>, "sender"),
     Register(<<1, 1>>, FALSE, <<22>>, <<>>, "sender")} \cup ConnectMsgs({80})

Universes == {AutoAgents, ApprovalAgents, WhitelistAgents, WhitelistDeniedAgents,
              BlacklistDeniedAgents, LoneSenderAgents, SendersAgents, ReregisterAgents}

ReplyMsgs ==
    {RawMsg(TRUE, ty, NoUuid, FALSE, <<>>, <<>>, "none", NoUuid, 0) :
        ty \in {"connect_accept", "connect_deny"}}

\* text that is not JSON, and JSON that the schema rejects (port 0)
BadMsgs ==
    {RawMsg(FALSE, "garbage", NoUuid, FALSE, <<>>, <<>>, "none", NoUuid, 0),
     ConnectToHost(<<1>>, 0)}

OtherMsgs == ReplyMsgs \cup BadMsgs

RawMsgs == UNION Universes \cup OtherMsgs

NoMsg == RawMsg(TRUE, "none", NoUuid, FALSE, <<>>, <<>>, "none", NoUuid, 0)

portSchema(p) == p > 0 /\ p <= MaxPort

messagesSchema(d) ==
    CASE d.type = "register" ->
            /\ \A i \in 1..Len(d.port_whitelist) : portSchema(d.port_whitelist[i])
            /\ \A i \in 1..Len(d.port_blacklist) : portSchema(d.port_blacklist[i])
            /\ d.client_type \in {"sender", "receiver"}
      [] d.type = "connect_to_host" -> portSchema(d.port)
      [] d.type \in {"connect_accept", "connect_deny"} -> TRUE
      [] OTHER -> FALSE

\* messagesSchema.parse(JSON.parse(data.toString())): the outcome
Parse(d) ==
    IF ~d.json THEN "SyntaxError"
    ELSE IF ~messagesSchema(d) THEN "ZodError"
    ELSE "ok"

\* ----------------------------------------------------- outbound messages
OutMsg(type, success, error, src, port, ct, sp, lp, fp) ==
    [type |-> type, success |-> success, error |-> error, source_client |-> src,
     port |-> port, client_type |-> ct, sshd_port |-> sp, local_port |-> lp,
     forwarded_port |-> fp]

Response(success, error) ==
    OutMsg("response", success, error, NoUuid, 0, "none", 0, 0, 0)

ConnectConfirm(src, port) ==
    OutMsg("connect_confirm", TRUE, "", src, port, "none", 0, 0, 0)

TunnelConnect(ct, sp, lp, fp) ==
    OutMsg("tunnel_connect", TRUE, "", NoUuid, 0, ct, sp, lp, fp)

TunnelClose == OutMsg("tunnel_close", TRUE, "", NoUuid, 0, "none", 0, 0, 0)

Send(to, msg) == [to |-> to, msg |-> msg]

wsSendResponse(st, ws, success, error) ==
    [st EXCEPT !.sent = Append(@, Send(ws, Response(success, error)))]

\* ------------------------------------------------------------ the engine
\* interface Client; heap[id] is the Client object with identity id
NewClient(m, ws) ==
    [ws |-> ws, uuid |-> m.uuid, ssh_key |-> m.ssh_key, auto_accept |-> m.auto_accept,
     port_whitelist |-> m.port_whitelist, port_blacklist |-> m.port_blacklist,
     client_type |-> m.client_type]

\* the part of the state one event handler reads and writes
Cur ==
    [heap |-> heap, clients |-> clients, listeners |-> listeners,
     pending |-> pending, children |-> children, files |-> files,
     nreq |-> nreq, denied |-> denied, sent |-> <<>>, crashed |-> FALSE]

Includes(s, x) == \E i \in 1..Len(s) : s[i] = x

\* OPENED_PORTS.find(port => !connections.some(con => con.sshdPort === port)); 0 when undefined
FindSshdPort ==
    LET i == FindIndex(OPENED_PORTS, LAMBDA port :
                 ~\E k \in 1..Len(connections) : connections[k].sshdPort = port)
    IN IF i = 0 THEN 0 ELSE OPENED_PORTS[i]

\* let localPort = Math.max(...OPENED_PORTS) + 1; while (...) localPort++
RECURSIVE FindLocalPortFrom(_)
FindLocalPortFrom(localPort) ==
    IF \E k \in 1..Len(connections) : connections[k].localPort = localPort
    THEN FindLocalPortFrom(localPort + 1)
    ELSE localPort

\* the search started at max(OPENED_PORTS) itself
FindLocalPortFromMax == FindLocalPortFrom(SetMax(Range(OPENED_PORTS)))

FindLocalPort == FindLocalPortFrom(SetMax(Range(OPENED_PORTS)) + 1)

\* createConnection up to its await wait(1000)
createConnection(st, ws, source, target, port, req) ==
    LET sshdPort == FindSshdPort
        localPort == FindLocalPort
        sshKeys == <<st.heap[target].ssh_key, st.heap[source].ssh_key>>
        sshd == Len(st.children) + 1
    IN IF sshdPort = 0
       THEN wsSendResponse(st, ws, FALSE, "Server is full")
       ELSE [st EXCEPT
               !.files = {f \in @ : f.port # sshdPort}
                            \cup {[port |-> sshdPort, keys |-> sshKeys]},
               !.children = Append(@, [req |-> req, sshdPort |-> sshdPort,
                                       localPort |-> localPort, killed |-> FALSE]),
               !.pending = Append(@, [req |-> req, ws |-> ws, source |-> source,
                                      target |-> target, port |-> port,
                                      sshdPort |-> sshdPort, localPort |-> localPort,
                                      sshd |-> sshd])]

\* EventEmitter.removeListener: drops the listener from that socket's list if it is there
removeListener(st, ws, req) ==
    [st EXCEPT !.listeners[ws] = SelectSeq(@, LAMBDA l : l.req # req)]

HandleRegister(st, ws, m) ==
    LET i == FindIndex(st.clients, LAMBDA c : st.heap[c].uuid = m.uuid)
        st1 == IF i # 0
               THEN [st EXCEPT !.heap[st.clients[i]].ws = ws]
               ELSE [st EXCEPT !.heap = Append(@, NewClient(m, ws)),
                               !.clients = Append(@, Len(st.heap) + 1)]
    IN wsSendResponse(st1, ws, TRUE, "")

\* the blacklist consulted whether or not there is a whitelist ("if" for "else if")
PortPolicyBoth(t, port) ==
    IF Len(t.port_whitelist) > 0 /\ ~Includes(t.port_whitelist, port)
    THEN "the port isn't in the client's whitelist"
    ELSE IF Len(t.port_blacklist) > 0 /\ Includes(t.port_blacklist, port)
    THEN "the port is in the client's blacklist"
    ELSE ""

\* the whitelist / blacklist test of connect_to_host: the refusal (its text without
\* the port number), "" when permitted
PortPolicy(t, port) ==
    IF Len(t.port_whitelist) > 0
    THEN (IF ~Includes(t.port_whitelist, port) THEN "the port isn't in the client's whitelist" ELSE "")
    ELSE IF Len(t.port_blacklist) > 0
    THEN (IF Includes(t.port_blacklist, port) THEN "the port is in the client's blacklist" ELSE "")
    ELSE ""

HandleConnectToHost(st, ws, m) ==
    LET si == FindIndex(st.clients, LAMBDA c : st.heap[c].ws = ws)
        search == SelectSeq(st.clients, LAMBDA c :
                      /\ st.heap[c].client_type = "sender"
                      /\ StartsWith(st.heap[c].uuid, m.target))
    IN IF si = 0 THEN wsSendResponse(st, ws, FALSE, "you are not registered")
       ELSE IF Len(search) = 0 THEN wsSendResponse(st, ws, FALSE, "There is no client that matches this search")
       ELSE IF Len(search) > 1 THEN wsSendResponse(st, ws, FALSE, "There are multiples clients that match this search")
       ELSE LET sourceClient == st.clients[si]
                targetClient == search[1]
                t == st.heap[targetClient]
                req == st.nreq + 1
            IN IF PortPolicy(t, m.port) # ""
               THEN wsSendResponse(st, ws, FALSE, PortPolicy(t, m.port))
               ELSE IF t.auto_accept
               THEN createConnection([st EXCEPT !.nreq = req], ws, sourceClient,
                                     targetClient, m.port, req)
               ELSE [st EXCEPT
                       !.nreq = req,
                       !.listeners[t.ws] = Append(@, [req |-> req, ws |-> ws,
                                                      source |-> sourceClient,
                                                      target |-> targetClient,
                                                      port |-> m.port]),
                       !.sent = Append(@, Send(t.ws,
                                    ConnectConfirm(st.heap[sourceClient].uuid, m.port)))]

\* a default handler with a final else that refuses what it does not handle
MainHandlerRefusing(st, ws, d) ==
    IF Parse(d) = "ZodError" THEN wsSendResponse(st, ws, FALSE, "ZodError")
    ELSE IF Parse(d) = "SyntaxError" THEN wsSendResponse(st, ws, FALSE, "SyntaxError")
    ELSE IF d.type = "register" THEN HandleRegister(st, ws, d)
    ELSE IF d.type = "connect_to_host" THEN HandleConnectToHost(st, ws, d)
    ELSE wsSendResponse(st, ws, FALSE, "unexpected message")

\* ws.on('message', async data => ...): the default handler
MainHandler(st, ws, d) ==
    IF Parse(d) = "ZodError" THEN wsSendResponse(st, ws, FALSE, "ZodError")
    ELSE IF Parse(d) = "SyntaxError" THEN wsSendResponse(st, ws, FALSE, "SyntaxError")
    ELSE IF d.type = "register" THEN HandleRegister(st, ws, d)
    ELSE IF d.type = "connect_to_host" THEN HandleConnectToHost(st, ws, d)
    ELSE st

\* const listener = (data) => ...: the approval listener of one request;
\* its parse is outside any try/catch, so a throw is an uncaught exception
Listener(st, l, d) ==
    IF Parse(d) # "ok" THEN [st EXCEPT !.crashed = TRUE]
    ELSE IF d.type = "connect_accept"
    THEN createConnection(removeListener(st, st.heap[l.target].ws, l.req),
                          l.ws, l.source, l.target, l.port, l.req)
    ELSE IF d.type = "connect_deny"
    THEN [wsSendResponse(removeListener(st, st.heap[l.target].ws, l.req),
                         l.ws, FALSE, "The client denied the connection")
             EXCEPT !.denied = @ \cup {l.req}]
    ELSE st

\* EventEmitter.emit: the listeners present when the event fires run in
\* order of installation; a throw ends the emit
RECURSIVE RunListeners(_, _, _)
RunListeners(st, ls, d) ==
    IF ls = <<>> \/ st.crashed THEN st
    ELSE RunListeners(Listener(st, Head(ls), d), Tail(ls), d)

OnMessage(ws, d) == RunListeners(MainHandler(Cur, ws, d), listeners[ws], d)

\* a close handler without the clientIndex !== -1 test: clients.splice(-1, 1)
\* takes the last Client out
OnCloseUnchecked(ws) ==
    LET found == FindIndex(clients, LAMBDA c : heap[c].ws = ws)
        clientIndex == IF found = 0 THEN Len(clients) ELSE found
        client == clients[clientIndex]
        connectionIndex == FindIndex(connections, LAMBDA c :
                               c.sender = client \/ c.receiver = client)
        connection == connections[connectionIndex]
        toSender == IF connection.sender # client
                    THEN <<Send(heap[connection.sender].ws, TunnelClose)>> ELSE <<>>
        toReceiver == IF connection.receiver # client
                      THEN <<Send(heap[connection.receiver].ws, TunnelClose)>> ELSE <<>>
    IN IF clientIndex = 0
       THEN [clients |-> clients, connections |-> connections,
             children |-> children, sent |-> <<>>, branch |-> "no client"]
       ELSE IF connectionIndex = 0
       THEN [clients |-> RemoveAt(clients, clientIndex), connections |-> connections,
             children |-> children, sent |-> <<>>,
             branch |-> IF found = 0 THEN "no client" ELSE "no connection"]
       ELSE [clients |-> RemoveAt(clients, clientIndex),
             connections |-> RemoveAt(connections, connectionIndex),
             children |-> [children EXCEPT ![connection.sshd].killed = TRUE],
             sent |-> toSender \o toReceiver,
             branch |-> IF found = 0 THEN "no client" ELSE "connection"]

\* ws.on('close', ...)
OnClose(ws) ==
    LET clientIndex == FindIndex(clients, LAMBDA c : heap[c].ws = ws)
        client == clients[clientIndex]
        connectionIndex == FindIndex(connections, LAMBDA c :
                               c.sender = client \/ c.receiver = client)
        connection == connections[connectionIndex]
        toSender == IF connection.sender # client
                    THEN <<Send(heap[connection.sender].ws, TunnelClose)>> ELSE <<>>
        toReceiver == IF connection.receiver # client
                      THEN <<Send(heap[connection.receiver].ws, TunnelClose)>> ELSE <<>>
    IN IF clientIndex = 0
       THEN [clients |-> clients, connections |-> connections,
             children |-> children, sent |-> <<>>, branch |-> "no client"]
       ELSE IF connectionIndex = 0
       THEN [clients |-> RemoveAt(clients, clientIndex), connections |-> connections,
             children |-> children, sent |-> <<>>, branch |-> "no connection"]
       ELSE [clients |-> RemoveAt(clients, clientIndex),
             connections |-> RemoveAt(connections, connectionIndex),
             children |-> [children EXCEPT ![connection.sshd].killed = TRUE],
             sent |-> toSender \o toReceiver, branch |-> "connection"]

\* createConnection after its await wait(1000): what it records and sends
ResumeConnection(p) ==
    [sshd |-> p.sshd, sender |-> p.target, receiver |-> p.source,
     localPort |-> p.localPort, sshdPort |-> p.sshdPort]

ResumeSent(p) ==
    <<Send(heap[p.source].ws, TunnelConnect("receiver", p.sshdPort, p.localPort, 0)),
      Send(heap[p.target].ws, TunnelConnect("sender", p.sshdPort, p.localPort, p.port))>>

\* what the last event was: its kind, and the error answered or the branch taken
Last(kind, outcome) == [kind |-> kind, outcome |-> outcome]

FirstError(out) ==
    LET i == FindIndex(out, LAMBDA o : o.msg.type = "response" /\ ~o.msg.success)
    IN IF i = 0 THEN "" ELSE out[i].msg.error

\* ---------------------------------------------------------------- actions
\* every event counts as one step of the engine; runs are explored up to MaxSteps
Step ==
    /\ ~crashed
    /\ steps < MaxSteps
    /\ steps' = steps + 1

InitWith(universes, configs) ==
    /\ OPENED_PORTS \in configs
    /\ agents \in universes
    /\ sockets = [ws \in Sockets |-> "unused"]
    /\ heap = <<>>
    /\ clients = <<>>
    /\ connections = <<>>
    /\ listeners = [ws \in Sockets |-> <<>>]
    /\ pending = <<>>
    /\ children = <<>>
    /\ files = {}
    /\ nreq = 0
    /\ nreg = 0
    /\ denied = {}
    /\ crashed = FALSE
    /\ last = Last("init", "")
    /\ steps = 0

Init == InitWith(Universes, Configs)

InitAuto == InitWith({AutoAgents}, Configs)

InitSenders == InitWith({SendersAgents}, {<<7857>>})

InitReregister == InitWith({ReregisterAgents}, {<<7857>>})

InitApproval == InitWith({ApprovalAgents}, {<<7857>>})

InitLone == InitWith({LoneSenderAgents}, {<<7857>>})

InitPolicy ==
    InitWith({WhitelistAgents, WhitelistDeniedAgents, BlacklistDeniedAgents}, {<<7857>>})

\* wss.on('connection', ws => ...): a new socket, with its two handlers installed
Connection(ws) ==
    /\ Step
    /\ sockets[ws] = "unused"
    /\ \A w \in Sockets : w < ws => sockets[w] # "unused"
    /\ sockets' = [sockets EXCEPT ![ws] = "open"]
    /\ last' = Last("connection", "")
    /\ UNCHANGED <<OPENED_PORTS, agents, heap, clients, connections, listeners, pending,
                   children, files, nreq, nreg, denied, crashed>>

\* a 'message' event on an open socket
Message(ws, d) ==
    /\ Step
    /\ sockets[ws] = "open"
    /\ LET st == OnMessage(ws, d)
       IN /\ Len(st.heap) <= MaxClients
          /\ st.nreq <= MaxReq
          /\ Len(st.children) <= MaxChildren
          /\ heap' = st.heap
          /\ clients' = st.clients
          /\ listeners' = st.listeners
          /\ pending' = st.pending
          /\ children' = st.children
          /\ files' = st.files
          /\ nreq' = st.nreq
          /\ nreg' = IF d.type = "register" THEN nreg + 1 ELSE nreg
          /\ nreg' <= MaxRegisters
          /\ denied' = st.denied
          /\ crashed' = st.crashed
          /\ last' = Last("message", IF st.crashed THEN "crash" ELSE FirstError(st.sent))
    /\ UNCHANGED <<OPENED_PORTS, agents, sockets, connections>>

\* createConnection after its await wait(1000): timers of equal delay fire in order
Resume ==
    /\ Step
    /\ pending # <<>>
    /\ connections' = Append(connections, ResumeConnection(Head(pending)))
    /\ pending' = Tail(pending)
    /\ last' = Last("resume", "")
    /\ UNCHANGED <<OPENED_PORTS, agents, sockets, heap, clients, listeners, children,
                   files, nreq, nreg, denied, crashed>>

\* a 'close' event on an open socket
Close(ws) ==
    /\ Step
    /\ sockets[ws] = "open"
    /\ sockets' = [sockets EXCEPT ![ws] = "closed"]
    /\ LET r == OnClose(ws)
       IN /\ clients' = r.clients
          /\ connections' = r.connections
          /\ children' = r.children
          /\ last' = Last("close", r.branch)
    /\ UNCHANGED <<OPENED_PORTS, agents, heap, listeners, pending, files, nreq,
                   nreg, denied, crashed>>

Next ==
    \/ \E ws \in Sockets : Connection(ws)
    \/ \E ws \in Sockets : \E d \in agents \cup OtherMsgs : Message(ws, d)
    \/ Resume
    \/ \E ws \in Sockets : Close(ws)

Spec == Init /\ [][Next]_vars

\* the same engine with one population of agents each
SpecAuto == InitAuto /\ [][Next]_vars

SpecApproval == InitApproval /\ [][Next]_vars

SpecLone == InitLone /\ [][Next]_vars

SpecSenders == InitSenders /\ [][Next]_vars

SpecReregister == InitReregister /\ [][Next]_vars

SpecPolicy == InitPolicy /\ [][Next]_vars

\* ------------------------------------------------------------ properties
Open(ws) == ~crashed /\ sockets[ws] = "open"

SentTo(out, ws, msg) == \E k \in 1..Len(out) : out[k] = Send(ws, msg)

CountSent(out, ws, msg) == Cardinality({k \in 1..Len(out) : out[k] = Send(ws, msg)})

RefusedTo(out, ws) ==
    \E k \in 1..Len(out) :
        out[k].to = ws /\ out[k].msg.type = "response" /\ ~out[k].msg.success

\* C1: the sshd ports of the live Connections are pairwise distinct and each
\* is one of OPENED_PORTS, also when two provisionings overlap in the warm-up wait.
C1_SshdPortsDistinct ==
    /\ \A i, j \in 1..Len(connections) :
           i # j => connections[i].sshdPort # connections[j].sshdPort
    /\ \A i \in 1..Len(connections) : connections[i].sshdPort \in Range(OPENED_PORTS)

\* C2: the local ports of the live Connections are pairwise distinct and each
\* is strictly greater than max(OPENED_PORTS), also when provisionings overlap.
C2_LocalPortsDistinct ==
    /\ \A i, j \in 1..Len(connections) :
           i # j => connections[i].localPort # connections[j].localPort
    /\ \A i \in 1..Len(connections) :
           \A q \in Range(OPENED_PORTS) : connections[i].localPort > q

\* C3: the sender and the receiver of every live Connection are entries of the
\* clients registry.
C3_ParticipantsRegistered ==
    \A i \in 1..Len(connections) :
        /\ connections[i].sender \in Range(clients)
        /\ connections[i].receiver \in Range(clients)

\* C4: once the close handler of a registered Client's socket has run, no live
\* Connection references that Client, the other peer of each Connection it took
\* part in has been sent one tunnel_close for it, and the closing socket none.
C4_CloseReapsAll ==
    \A ws \in Sockets :
        (Open(ws) /\ \E c \in Range(clients) : heap[c].ws = ws) =>
            LET client == clients[FindIndex(clients, LAMBDA c : heap[c].ws = ws)]
                r == OnClose(ws)
                Peers == {c \in 1..Len(heap) : c # client /\
                             \E k \in 1..Len(connections) :
                                 {connections[k].sender, connections[k].receiver}
                                     = {client, c}}
            IN /\ \A k \in 1..Len(r.connections) :
                      /\ r.connections[k].sender # client
                      /\ r.connections[k].receiver # client
               /\ \A c \in Peers :
                      CountSent(r.sent, heap[c].ws, TunnelClose) =
                          Cardinality({k \in 1..Len(connections) :
                              {connections[k].sender, connections[k].receiver}
                                  = {client, c}})
               /\ ~SentTo(r.sent, ws, TunnelClose)

Bound(ws) == \E c \in Range(clients) : heap[c].ws = ws

\* the Client a socket acts as: the first registry entry bound to it
Requester(ws) == clients[FindIndex(clients, LAMBDA c : heap[c].ws = ws)]

SendersMatching(target) ==
    {c \in Range(clients) :
        heap[c].client_type = "sender" /\ StartsWith(heap[c].uuid, target)}

TheTarget(target) == CHOOSE c \in SendersMatching(target) : TRUE

\* the port policy as the data model states it
PolicyDenies(c, port) ==
    LET wl == heap[c].port_whitelist
        bl == heap[c].port_blacklist
    IN \/ wl # <<>> /\ port \notin Range(wl)
       \/ wl = <<>> /\ bl # <<>> /\ port \in Range(bl)

Resolves(ws, d) ==
    /\ Open(ws)
    /\ d.type = "connect_to_host"
    /\ Bound(ws)
    /\ Cardinality(SendersMatching(d.target)) = 1

NoConfirm(out) == \A k \in 1..Len(out) : out[k].msg.type # "connect_confirm"

NewChildren(st) == (Len(children) + 1)..Len(st.children)

\* C5: a connect_to_host whose port the target's policy denies spawns no child,
\* records nothing, sends no connect_confirm and is answered response(false) to
\* the requester; with a non-empty whitelist the blacklist is not consulted.
C5_PolicyDenialSpawnsNothing ==
    \A ws \in Sockets : \A d \in agents :
        Resolves(ws, d) =>
            LET t == TheTarget(d.target)
                st == OnMessage(ws, d)
            IN /\ PolicyDenies(t, d.port) =>
                      /\ st.children = children
                      /\ st.pending = pending
                      /\ st.files = files
                      /\ st.listeners = listeners
                      /\ NoConfirm(st.sent)
                      /\ RefusedTo(st.sent, ws)
               /\ (/\ heap[t].port_whitelist # <<>>
                   /\ d.port \in Range(heap[t].port_whitelist)
                   /\ d.port \in Range(heap[t].port_blacklist)) =>
                      \/ SentTo(st.sent, heap[t].ws,
                                ConnectConfirm(heap[Requester(ws)].uuid, d.port))
                      \/ NewChildren(st) # {}
                      \/ SentTo(st.sent, ws, Response(FALSE, "Server is full"))

C5_Witness ==
    /\ last = Last("message", "the port is in the client's blacklist")
    /\ \E c \in Range(clients) :
           /\ ~heap[c].auto_accept
           /\ heap[c].port_whitelist = <<>>
           /\ 22 \in Range(heap[c].port_blacklist)

BySocket(h, cl, ws) == {c \in Range(cl) : h[c].ws = ws}

\* C6: at most one registry entry has any given uuid, and a register carrying a
\* registered uuid from a new socket keeps the registry size and rebinds the
\* entry: lookups by the new socket find that Client, lookups by the old none.
C6_ReregisterRebinds ==
    /\ \A i, j \in 1..Len(clients) :
           i # j => heap[clients[i]].uuid # heap[clients[j]].uuid
    /\ \A ws \in Sockets : \A d \in agents :
           (/\ Open(ws)
            /\ d.type = "register"
            /\ \E c \in Range(clients) : heap[c].uuid = d.uuid /\ heap[c].ws # ws) =>
               LET c == CHOOSE c \in Range(clients) : heap[c].uuid = d.uuid
                   st == OnMessage(ws, d)
               IN /\ Len(st.clients) = Len(clients)
                  /\ st.heap[c].ws = ws
                  /\ BySocket(st.heap, st.clients, ws) = {c}
                  /\ BySocket(st.heap, st.clients, heap[c].ws) = {}

\* C7: a malformed message on any open socket is answered response(false),
\* changes neither registry, spawns no child and does not abort the engine.
C7_MalformedIsHarmless ==
    \A ws \in Sockets : \A d \in BadMsgs :
        Open(ws) =>
            LET st == OnMessage(ws, d)
            IN /\ RefusedTo(st.sent, ws)
               /\ st.clients = clients
               /\ st.heap = heap
               /\ st.children = children
               /\ st.pending = pending
               /\ ~st.crashed

Unbound(ws, d) ==
    /\ Open(ws)
    /\ ~Bound(ws)
    /\ d.type \in {"connect_to_host", "connect_accept", "connect_deny"}

C9_ApprovalGate ==
    \A ws \in Sockets : \A d \in agents \cup ReplyMsgs :
        Open(ws) =>
            LET st == OnMessage(ws, d)
            IN /\ (/\ Resolves(ws, d)
                   /\ ~PolicyDenies(TheTarget(d.target), d.port)
                   /\ ~heap[TheTarget(d.target)].auto_accept) =>
                      /\ st.sent = <<Send(heap[TheTarget(d.target)].ws,
                                       ConnectConfirm(heap[Requester(ws)].uuid, d.port))>>
                      /\ NewChildren(st) = {}
                      /\ st.pending = pending
               /\ \A k \in NewChildren(st) :
                      /\ (\E i \in 1..Len(st.pending) :
                              /\ st.pending[i].sshd = k
                              /\ ~heap[st.pending[i].target].auto_accept)
                             => d.type = "connect_accept"
                      /\ st.children[k].req \notin denied
               /\ d.type = "connect_deny" =>
                      \A i \in 1..Len(listeners[ws]) :
                          SentTo(st.sent, listeners[ws][i].ws,
                                 Response(FALSE, "The client denied the connection"))

HeldSshdPorts == {connections[k].sshdPort : k \in 1..Len(connections)}

HeldLocalPorts == {connections[k].localPort : k \in 1..Len(connections)}

\* the allocation the spec prescribes
FirstFreeSshdPort ==
    OPENED_PORTS[CHOOSE i \in 1..Len(OPENED_PORTS) :
        /\ OPENED_PORTS[i] \notin HeldSshdPorts
        /\ \A j \in 1..(i - 1) : OPENED_PORTS[j] \in HeldSshdPorts]

SmallestFreeLocalPort ==
    LET base == SetMax(Range(OPENED_PORTS))
    IN CHOOSE n \in (base + 1)..(base + 1 + Len(connections)) :
        /\ n \notin HeldLocalPorts
        /\ \A q \in (base + 1)..(n - 1) : q \in HeldLocalPorts

\* the requesters whose provisioning starts when d arrives on ws
Provisioned(ws, d) ==
    IF /\ Resolves(ws, d)
       /\ ~PolicyDenies(TheTarget(d.target), d.port)
       /\ heap[TheTarget(d.target)].auto_accept
    THEN {ws}
    ELSE IF d.type = "connect_accept"
    THEN {listeners[ws][i].ws : i \in 1..Len(listeners[ws])}
    ELSE {}

\* C10: a provisioning that starts while every port of OPENED_PORTS is held by
\* a live Connection answers the requester "Server is full" and spawns, writes
\* and records nothing; otherwise it takes the first port of OPENED_PORTS not
\* held and the smallest local port above max(OPENED_PORTS) not held.
C10_Allocation ==
    \A ws \in Sockets : \A d \in agents \cup ReplyMsgs :
        Open(ws) =>
            LET st == OnMessage(ws, d)
                full == Range(OPENED_PORTS) \subseteq HeldSshdPorts
                kids == NewChildren(st)
            IN /\ full =>
                      /\ st.children = children
                      /\ st.files = files
                      /\ st.pending = pending
                      /\ \A w \in Provisioned(ws, d) :
                             SentTo(st.sent, w, Response(FALSE, "Server is full"))
               /\ ~full =>
                      /\ Cardinality(kids) >= Cardinality(Provisioned(ws, d))
                      /\ Len(st.pending) = Len(pending) + Cardinality(kids)
                      /\ \A k \in kids :
                             /\ st.children[k].sshdPort = FirstFreeSshdPort
                             /\ st.children[k].localPort = SmallestFreeLocalPort
                             /\ \E i \in 1..Len(st.pending) :
                                    /\ st.pending[i].sshd = k
                                    /\ st.pending[i].sshdPort = FirstFreeSshdPort
                                    /\ st.pending[i].localPort = SmallestFreeLocalPort
                             /\ \E f \in st.files : f.port = FirstFreeSshdPort

C10_Witness ==
    /\ last = Last("message", "Server is full")
    /\ Range(OPENED_PORTS) \subseteq HeldSshdPorts
    /\ Len(children) = Len(connections)
    /\ connections[1].sshdPort = OPENED_PORTS[1]
    /\ connections[1].localPort = SetMax(Range(OPENED_PORTS)) + 1

\* the Connection the close handler of ws destroys
Reaped(ws) ==
    LET client == Requester(ws)
    IN connections[FindIndex(connections, LAMBDA c :
                       c.sender = client \/ c.receiver = client)]

\* C11: when the close of a participant's socket destroys a Connection, its
\* child sshd is signalled to terminate, the authorized-keys script file of its
\* sshd port no longer exists afterwards, and its sshd port and local port are
\* free for the next provisioning.
C11_CloseReleases ==
    [][\A ws \in Sockets :
          (/\ Open(ws)
           /\ sockets'[ws] = "closed"
           /\ OnClose(ws).branch = "connection") =>
              LET con == Reaped(ws)
              IN /\ children'[con.sshd].killed
                 /\ ~\E f \in files' : f.port = con.sshdPort
                 /\ \A k \in 1..Len(connections') :
                        /\ connections'[k].sshdPort # con.sshdPort
                        /\ connections'[k].localPort # con.localPort]_vars

CountTunnelConnect(out, ws) ==
    Cardinality({k \in 1..Len(out) : out[k].to = ws /\ out[k].msg.type = "tunnel_connect"})

\* C12: a provisioning that completes records the Connection and sends one
\* tunnel_connect to the receiver (client_type receiver, forwarded_port 0) and
\* then one to the sender (client_type sender, forwarded_port the requested
\* port), both with the ports of the recorded Connection, and no response; a
\* connect_to_host to an auto-accept target gives its requester exactly one of
\* response(false) or tunnel_connect.
C12_ProvisioningAnnounces ==
    /\ pending # <<>> =>
          LET p == Head(pending)
              con == ResumeConnection(p)
              out == ResumeSent(p)
              receiver == heap[con.receiver].ws
              sender == heap[con.sender].ws
          IN /\ SentTo(out, receiver,
                       TunnelConnect("receiver", con.sshdPort, con.localPort, 0))
             /\ SentTo(out, sender,
                       TunnelConnect("sender", con.sshdPort, con.localPort, p.port))
             /\ CountTunnelConnect(out, receiver) = 1
             /\ CountTunnelConnect(out, sender) = 1
             /\ \A k \in 1..Len(out) : out[k].msg.type # "response"
    /\ \A ws \in Sockets : \A d \in agents :
          (Resolves(ws, d) /\ heap[TheTarget(d.target)].auto_accept) =>
              LET st == OnMessage(ws, d)
                  started == Len(st.pending) - Len(pending)
              IN \/ /\ started = 0
                    /\ Len(st.sent) = 1
                    /\ RefusedTo(st.sent, ws)
                 \/ /\ started = 1
                    /\ st.sent = <<>>
                    /\ st.pending[Len(st.pending)].source = Requester(ws)
                    /\ st.pending[Len(st.pending)].port = d.port

\* the requester of l, a Client other than the target, is gone with its socket
Departed(l) ==
    /\ sockets[l.ws] = "closed"
    /\ l.source \notin Range(clients)
    /\ l.source # l.target

\* C13: once the socket of a requester awaiting approval has closed, no
\* approval listener of that request remains on the target's socket, and a
\* later connect_accept spawns no child and starts no provisioning for it.
C13_RequesterCloseCancels ==
    /\ \A ws \in Sockets :
          Open(ws) => \A i \in 1..Len(listeners[ws]) : ~Departed(listeners[ws][i])
    /\ \A ws \in Sockets : \A d \in ReplyMsgs :
          (Open(ws) /\ d.type = "connect_accept") =>
              LET st == OnMessage(ws, d)
              IN \A i \in (Len(pending) + 1)..Len(st.pending) : ~Departed(st.pending[i])

\* the requests from other sockets awaiting the approval of the Client bound to ws
Awaiting(ws) ==
    {i \in 1..Len(listeners[ws]) :
        /\ listeners[ws][i].ws # ws
        /\ heap[listeners[ws][i].target].ws = ws
        /\ listeners[ws][i].target \in Range(clients)
        /\ listeners[ws][i].req \notin denied
        /\ sockets[listeners[ws][i].ws] = "open"}

\* C14: when the socket of a target closes while requests await its approval,
\* each of their requesters is sent response(false).
C14_TargetCloseAnswersRequester ==
    \A ws \in Sockets :
        Open(ws) => \A i \in Awaiting(ws) : RefusedTo(OnClose(ws).sent, listeners[ws][i].ws)

CountDenied(out) ==
    Cardinality({k \in 1..Len(out) :
        out[k].msg = Response(FALSE, "The client denied the connection")})

\* C15: one connect_accept from a target provisions at most one Connection and
\* one connect_deny rejects at most one request, however many requests await
\* that target; a reply resolves one pending request only.
C15_ListenerOneShot ==
    \A ws \in Sockets : \A d \in ReplyMsgs :
        (Open(ws) /\ \A i \in 1..Len(listeners[ws]) : listeners[ws][i].ws # ws) =>
            LET st == OnMessage(ws, d)
            IN /\ Cardinality(NewChildren(st)) <= 1
               /\ Len(st.pending) <= Len(pending) + 1
               /\ CountDenied(st.sent) <= 1
               /\ Cardinality(st.denied \ denied) <= 1
               /\ Len(st.listeners[ws]) >= Len(listeners[ws]) - 1

\* C16: in every live Connection the receiver has client_type receiver, the
\* sender has client_type sender, and they are two distinct Clients.
C16_ConnectionRoles ==
    \A k \in 1..Len(connections) :
        /\ heap[connections[k].receiver].client_type = "receiver"
        /\ heap[connections[k].sender].client_type = "sender"
        /\ connections[k].sender # connections[k].receiver

\* C17: after a register whose uuid is already in the registry, the entry's
\* socket, auto_accept, port_whitelist and port_blacklist are those of that
\* register message.
C17_ReregisterUpdatesPolicy ==
    \A ws \in Sockets : \A d \in agents :
        (/\ Open(ws)
         /\ d.type = "register"
         /\ \E c \in Range(clients) : heap[c].uuid = d.uuid) =>
            LET c == CHOOSE c \in Range(clients) : heap[c].uuid = d.uuid
                e == OnMessage(ws, d).heap[c]
            IN /\ e.ws = ws
               /\ e.auto_accept = d.auto_accept
               /\ e.port_whitelist = d.port_whitelist
               /\ e.port_blacklist = d.port_blacklist

ConnectionsOf(c) ==
    {k \in 1..Len(connections) : connections[k].sender = c \/ connections[k].receiver = c}

\* C18: each Client is sender or receiver of at most one live Connection.
C18_OneConnectionPerClient ==
    \A c \in 1..Len(heap) : Cardinality(ConnectionsOf(c)) <= 1

\* C19: each socket is bound to at most one Client of the registry, and no
\* registry entry is bound to a closed socket.
C19_OneClientPerSocket ==
    \A ws \in Sockets :
        /\ Cardinality(BySocket(heap, clients, ws)) <= 1
        /\ sockets[ws] = "closed" => BySocket(heap, clients, ws) = {}

\* C20: the close of a socket bound to no Client leaves the clients registry,
\* the connections registry and the child processes as they are and sends no
\* tunnel_close.
C20_UnboundCloseIsNoOp ==
    \A ws \in Sockets :
        (Open(ws) /\ ~Bound(ws)) =>
            LET r == OnClose(ws)
            IN /\ r.clients = clients
               /\ r.connections = connections
               /\ r.children = children
               /\ r.sent = <<>>

\* a superseded socket has just closed while a Connection is live
C20_Witness ==
    /\ last = Last("close", "no client")
    /\ clients # <<>>
    /\ connections # <<>>
    /\ \E k \in 1..Len(children) : ~children[k].killed
    /\ nreg > Len(heap)

====
